---- MODULE Spec2Model ----
(***************************************************************************)
(* Model of package configset (go-tk/configset), the last revision in      *)
(* src/configstore.go (lines 513-675): configSet.Load, gatherConfigs,      *)
(* overwriteConfigSet, extractKVs, configSet.ReadValue, configSet.Dump.    *)
(*                                                                         *)
(* Byte strings the code scans (environment entries, override paths) are   *)
(* sequences of one-character strings.  A JSON document (json.RawMessage)  *)
(* is kept as the tree its bytes spell out, members in the order in which  *)
(* they stand in the text:                                                 *)
(*    [t |-> "val", raw |-> s]   a scalar, s its JSON text                 *)
(*    [t |-> "obj", kv  |-> <<[k |-> key, v |-> tree], ...>>]              *)
(*    [t |-> "arr", el  |-> <<tree, ...>>]                                 *)
(* Encode gives the bytes back.                                            *)
(***************************************************************************)
EXTENDS Integers, Sequences, FiniteSets, TLC

(***************************************************************************)
(* Bounds of the model.                                                    *)
(***************************************************************************)
MaxEnv == 3      \* longest override list drawn from CoreMenu for the patch fold
MaxPair == 2     \* longest override list drawn from the whole of PatchMenu
MaxLoads == 2    \* Load calls made on one configSet

(***************************************************************************)
(* Byte strings.                                                           *)
(***************************************************************************)
Digits == {"0", "1", "2", "3", "4", "5", "6", "7", "8", "9"}

RECURSIVE JoinStr(_)
JoinStr(chars) == IF chars = <<>> THEN "" ELSE Head(chars) \o JoinStr(Tail(chars))

DigitVal(c) ==
  CASE c = "0" -> 0 [] c = "1" -> 1 [] c = "2" -> 2 [] c = "3" -> 3
    [] c = "4" -> 4 [] c = "5" -> 5 [] c = "6" -> 6 [] c = "7" -> 7
    [] c = "8" -> 8 [] c = "9" -> 9

\* strings.HasPrefix
HasPrefix(s, p) == Len(s) >= Len(p) /\ SubSeq(s, 1, Len(p)) = p

\* strings.IndexByte: the 0-based index of the first c in s, -1 if none
IndexByte(s, c) ==
  IF \E i \in 1..Len(s) : s[i] = c
    THEN (CHOOSE i \in 1..Len(s) : s[i] = c /\ \A j \in 1..(i - 1) : s[j] /= c) - 1
    ELSE -1

\* the segments of a dotted path (sjson parsePath, gjson path walk): the
\* pieces between the '.' characters
RECURSIVE SplitPath(_)
SplitPath(p) ==
  LET i == IndexByte(p, ".")
  IN IF i < 0 THEN <<p>>
     ELSE <<SubSeq(p, 1, i)>> \o SplitPath(SubSeq(p, i + 2, Len(p)))

(***************************************************************************)
(* JSON trees.                                                             *)
(***************************************************************************)
Val(s) == [t |-> "val", raw |-> s]
Obj(kvs) == [t |-> "obj", kv |-> kvs]
Arr(els) == [t |-> "arr", el |-> els]
KV(key, tree) == [k |-> key, v |-> tree]
Null == Val("null")
None == [t |-> "none"]     \* gjson.Result{}: nothing found, Raw == ""
Nil == [t |-> "nil"]       \* a nil json.RawMessage

RECURSIVE Encode(_)
RECURSIVE EncodeMembers(_)
RECURSIVE EncodeElements(_)
\* the bytes of a document
Encode(tr) ==
  CASE tr.t = "val" -> tr.raw
    [] tr.t = "obj" -> "{" \o EncodeMembers(tr.kv) \o "}"
    [] tr.t = "arr" -> "[" \o EncodeElements(tr.el) \o "]"
    [] OTHER -> ""
EncodeMembers(kvs) ==
  IF kvs = <<>> THEN ""
  ELSE "\"" \o Head(kvs).k \o "\":" \o Encode(Head(kvs).v)
       \o (IF Len(kvs) > 1 THEN "," ELSE "") \o EncodeMembers(Tail(kvs))
EncodeElements(els) ==
  IF els = <<>> THEN ""
  ELSE Encode(Head(els)) \o (IF Len(els) > 1 THEN "," ELSE "")
       \o EncodeElements(Tail(els))

(***************************************************************************)
(* gjson.GetBytes, as ReadValue and sjson use it.                          *)
(***************************************************************************)
\* gjson parseUint / sjson atoui: a segment of decimal digits only
IsUint(seg) == seg /= <<>> /\ \A i \in 1..Len(seg) : seg[i] \in Digits

RECURSIVE Atoui(_)
Atoui(seg) ==
  IF seg = <<>> THEN 0 ELSE Atoui(SubSeq(seg, 1, Len(seg) - 1)) * 10 + DigitVal(seg[Len(seg)])

\* position of the first member named key, 0 if none
KeyIndex(kvs, key) ==
  IF \E i \in 1..Len(kvs) : kvs[i].k = key
    THEN CHOOSE i \in 1..Len(kvs) : kvs[i].k = key /\ \A j \in 1..(i - 1) : kvs[j].k /= key
    ELSE 0

\* one step of the path walk: an object is searched for the member whose
\* key equals the segment, an array is indexed by a segment that is an
\* unsigned number, and nothing is found inside a scalar
GetSeg(tr, seg) ==
  CASE tr.t = "obj" ->
         LET i == KeyIndex(tr.kv, JoinStr(seg))
         IN IF i = 0 THEN None ELSE tr.kv[i].v
    [] tr.t = "arr" ->
         IF IsUint(seg) /\ Atoui(seg) < Len(tr.el) THEN tr.el[Atoui(seg) + 1] ELSE None
    [] OTHER -> None

CountSeg == <<"#">>    \* the segment gjson reads as "all elements of the array"
Counts == <<"0", "1", "2", "3", "4", "5", "6", "7", "8", "9">>

RECURSIVE GetSegs(_, _)
\* the path walk of gjson; on an array the segment "#" ends the walk with
\* the number of elements, or, when more segments follow, with the array of
\* what they find in each element
GetSegs(tr, segs) ==
  IF segs = <<>> THEN tr
  ELSE IF tr.t = "arr" /\ Head(segs) = CountSeg
    THEN IF Tail(segs) = <<>> THEN Val(Counts[Len(tr.el) + 1])
         ELSE LET found == [n \in 1..Len(tr.el) |-> GetSegs(tr.el[n], Tail(segs))]
              IN Arr(SelectSeq(found, LAMBDA r : r /= None))
  ELSE LET r == GetSeg(tr, Head(segs))
       IN IF r = None THEN None ELSE GetSegs(r, Tail(segs))

\* GetBytes with a fault: the empty path yields the document
GetBytes_root(tr, path) == IF path = <<>> THEN tr ELSE GetSegs(tr, SplitPath(path))

\* gjson.GetBytes(json, path): the empty path is the single empty segment,
\* so it looks for a member whose key is the empty string
GetBytes(tr, path) == GetSegs(tr, SplitPath(path))

(***************************************************************************)
(* sjson.SetRawBytesOptions(json, path, value, {Optimistic, ReplaceInPlace})*)
(* as overwriteConfigSet calls it.  A result is [err |-> "", tree |-> t]   *)
(* or [err |-> message].                                                   *)
(***************************************************************************)
Done(tr) == [err |-> "", tree |-> tr]
Fail(msg) == [err |-> msg]

RECURSIVE Nulls(_)
Nulls(n) == IF n <= 0 THEN <<>> ELSE <<Null>> \o Nulls(n - 1)

AppendSeg == <<"-", "1">>    \* the segment that appends to an array

\* ReplaceChild with a fault: an object gets a second member of the same name
ReplaceChild_again(tr, seg, sub) ==
  IF tr.t = "obj"
    THEN Obj(Append(tr.kv, KV(JoinStr(seg), sub)))
    ELSE Arr([tr.el EXCEPT ![Atoui(seg) + 1] = sub])

\* ReplaceChild with a fault: the first member of an object is replaced
ReplaceChild_first(tr, seg, sub) ==
  IF tr.t = "obj"
    THEN Obj([tr.kv EXCEPT ![1] = KV(tr.kv[1].k, sub)])
    ELSE Arr([tr.el EXCEPT ![Atoui(seg) + 1] = sub])

\* the value at segment seg of a container replaced by sub
ReplaceChild(tr, seg, sub) ==
  IF tr.t = "obj"
    THEN LET i == KeyIndex(tr.kv, JoinStr(seg))
         IN Obj([tr.kv EXCEPT ![i] = KV(tr.kv[i].k, sub)])
    ELSE Arr([tr.el EXCEPT ![Atoui(seg) + 1] = sub])

RECURSIVE appendBuild_objects(_, _)
\* appendBuild with a fault: every missing container is made an object
appendBuild_objects(paths, data) ==
  IF Len(paths) > 1
    THEN Obj(<<KV(JoinStr(paths[2]), appendBuild_objects(Tail(paths), data))>>)
    ELSE data

RECURSIVE appendBuild(_, _)
\* sjson appendBuild: the value to place under paths[1] when nothing is
\* there yet; the kind of every missing container is decided by the
\* segment that follows it, an array for a number or "-1", else an object
appendBuild(paths, data) ==
  IF Len(paths) > 1
    THEN LET nxt == paths[2]
         IN IF IsUint(nxt) \/ nxt = AppendSeg
              THEN Arr(Nulls(IF IsUint(nxt) THEN Atoui(nxt) ELSE 0)
                       \o <<appendBuild(Tail(paths), data)>>)
              ELSE Obj(<<KV(JoinStr(nxt), appendBuild(Tail(paths), data))>>)
    ELSE data

\* addToObject with a fault: the new member replaces the members there were
addToObject_alone(base, paths, data) ==
  Done(Obj(<<KV(JoinStr(Head(paths)), appendBuild(paths, data))>>))

\* addToObject with a fault: a number turns the object into an array
addToObject_indexed(base, paths, data) ==
  IF IsUint(Head(paths))
    THEN Done(Arr(Nulls(Atoui(Head(paths))) \o <<appendBuild(paths, data)>>))
    ELSE Done(Obj(Append(base.kv, KV(JoinStr(Head(paths)), appendBuild(paths, data)))))

\* sjson appendRawPaths, case '{': the object gets one more member, named
\* by the segment whether it is a number or not
addToObject(base, paths, data) ==
  Done(Obj(Append(base.kv, KV(JoinStr(Head(paths)), appendBuild(paths, data)))))

\* addToArray with a fault: one null too few before an element past the end
addToArray_short(base, paths, data) ==
  LET seg == Head(paths)
  IN IF ~IsUint(seg)
       THEN IF seg = AppendSeg
              THEN Done(Arr(Append(base.el, appendBuild(paths, data))))
              ELSE Fail("cannot set array element for non-numeric key '" \o JoinStr(seg) \o "'")
       ELSE Done(Arr(base.el \o Nulls(Atoui(seg) - Len(base.el) - 1)
                     \o <<appendBuild(paths, data)>>))

\* addToArray with a fault: every segment that is not a number appends
addToArray_lenient(base, paths, data) ==
  LET seg == Head(paths)
  IN IF ~IsUint(seg)
       THEN Done(Arr(Append(base.el, appendBuild(paths, data))))
       ELSE Done(Arr(base.el \o Nulls(Atoui(seg) - Len(base.el))
                     \o <<appendBuild(paths, data)>>))

\* sjson appendRawPaths, case '[': a number past the end extends the array
\* with nulls up to it, "-1" appends, any other segment is refused
addToArray(base, paths, data) ==
  LET seg == Head(paths)
  IN IF ~IsUint(seg)
       THEN IF seg = AppendSeg
              THEN Done(Arr(Append(base.el, appendBuild(paths, data))))
              ELSE Fail("cannot set array element for non-numeric key '" \o JoinStr(seg) \o "'")
       ELSE Done(Arr(base.el \o Nulls(Atoui(seg) - Len(base.el))
                     \o <<appendBuild(paths, data)>>))

RECURSIVE appendRawPaths_strict(_, _, _)
\* appendRawPaths with a fault: a scalar on the way is refused
appendRawPaths_strict(jstr, paths, data) ==
  LET seg == Head(paths)
      res == GetSeg(jstr, seg)
  IN IF jstr.t \notin {"obj", "arr"} THEN Fail("json must be an object or array")
     ELSE IF res /= None
       THEN IF Len(paths) > 1
              THEN LET sub == appendRawPaths_strict(res, Tail(paths), data)
                   IN IF sub.err /= "" THEN sub
                      ELSE Done(ReplaceChild(jstr, seg, sub.tree))
              ELSE Done(ReplaceChild(jstr, seg, data))
       ELSE IF jstr.t = "obj" THEN addToObject(jstr, paths, data)
            ELSE addToArray(jstr, paths, data)

RECURSIVE appendRawPaths(_, _, _)
\* sjson appendRawPaths: walk the segments; where the segment addresses an
\* existing value descend into it or replace it, otherwise add to the
\* container, a scalar in that place giving way to a new empty container
appendRawPaths(jstr, paths, data) ==
  LET seg == Head(paths)
      res == GetSeg(jstr, seg)
  IN IF res /= None
       THEN IF Len(paths) > 1
              THEN LET sub == appendRawPaths(res, Tail(paths), data)
                   IN IF sub.err /= "" THEN sub
                      ELSE Done(ReplaceChild(jstr, seg, sub.tree))
              ELSE Done(ReplaceChild(jstr, seg, data))
       ELSE LET base == IF jstr.t \in {"obj", "arr"} THEN jstr
                        ELSE IF IsUint(seg) THEN Arr(<<>>) ELSE Obj(<<>>)
            IN IF base.t = "obj" THEN addToObject(base, paths, data)
               ELSE addToArray(base, paths, data)

Alphabet == <<"a", "b", "c", "d", "e", "f", "g", "h", "i", "j", "k", "l", "m", "n",
             "o", "p", "q", "r", "s", "t", "u", "v", "w", "x", "y", "z">>
Letters == {Alphabet[i] : i \in 1..Len(Alphabet)}

\* sjson isOptimisticPath: every byte lies in '.'..'9' or 'A'..'z', which
\* leaves out '-'
isOptimisticPath(path) ==
  \A i \in 1..Len(path) : path[i] \in ({".", "_"} \cup Digits \cup Letters)

\* SetRawBytesOptions with a fault: the empty path sets the whole document
SetRawBytesOptions_root(jstr, path, data) ==
  IF path = <<>> THEN Done(data) ELSE appendRawPaths(jstr, SplitPath(path), data)

\* sjson set: the empty path is refused; a path gjson resolves is replaced
\* where it stands (the optimistic route, in place when the new text is not
\* longer), any other goes through appendRawPaths
SetRawBytesOptions(jstr, path, data) ==
  IF path = <<>> THEN Fail("path cannot be empty")
  ELSE IF isOptimisticPath(path) /\ GetBytes(jstr, path) /= None
         THEN LET segs == SplitPath(path)
                  RECURSIVE Put(_, _)
                  Put(tr, ss) == IF Len(ss) = 1 THEN ReplaceChild(tr, ss[1], data)
                                 ELSE ReplaceChild(tr, ss[1], Put(GetSeg(tr, ss[1]), Tail(ss)))
              IN Done(Put(jstr, segs))
         ELSE appendRawPaths(jstr, SplitPath(path), data)

(***************************************************************************)
(* yaml.YAMLToJSONStrict on the texts that occur: the contents of the      *)
(* files and the values of the overrides.  Members of a mapping come out   *)
(* sorted by key, 1.0 comes out as 1, a plain word as a JSON string, the   *)
(* empty text as null.                                                     *)
(***************************************************************************)
Q(s) == "\"" \o s \o "\""

RECURSIVE Escape(_)
Escape(chars) ==
  IF chars = <<>> THEN ""
  ELSE (IF Head(chars) \in {"\"", "\\"} THEN "\\" ELSE "") \o Head(chars) \o Escape(Tail(chars))

\* fmt's %q of a byte string
Quote(chars) == "\"" \o Escape(chars) \o "\""

AaaYaml == "hello: world\nnumbers: [1,2,3]\n"
GogoYaml == "version: 1.0\nauthor: roy\n"
BadYaml == "hello: world\nnumbers: [1,2,3\n"
SmallYaml == "n: [1,2]\ns: 1\n"
XYZ == "{\"x\": 1, \"y\": 2, \"z\": 3}"

AaaTree == Obj(<<KV("hello", Val(Q("world"))),
                 KV("numbers", Arr(<<Val("1"), Val("2"), Val("3")>>))>>)
GogoTree == Obj(<<KV("author", Val(Q("roy"))), KV("version", Val("1"))>>)
SmallTree == Obj(<<KV("n", Arr(<<Val("1"), Val("2")>>)), KV("s", Val("1"))>>)
XYZTree == Obj(<<KV("x", Val("1")), KV("y", Val("2")), KV("z", Val("3"))>>)

YAMLToJSONStrict(text) ==
  CASE text = AaaYaml -> Done(AaaTree)
    [] text = GogoYaml -> Done(GogoTree)
    [] text = SmallYaml -> Done(SmallTree)
    [] text = BadYaml -> Fail("yaml: line 3: did not find expected ',' or ']'")
    [] text = XYZ -> Done(XYZTree)
    [] text = "'" -> Fail("yaml: found unexpected end of stream")
    [] text = "" -> Done(Null)
    [] text = "[5]" -> Done(Arr(<<Val("5")>>))
    [] text \in {"1", "7", "8", "-2", "22", "100", "\"hi\""} -> Done(Val(text))
    [] text \in {"lisa", "a=b"} -> Done(Val(Q(text)))

(***************************************************************************)
(* The file system handed to Load (afero.Fs): directories and their files, *)
(* names in the sorted order in which afero.Glob reads them.               *)
(***************************************************************************)
Suffix == <<".", "y", "a", "m", "l">>
File(name, data) == [name |-> name, data |-> data, readable |-> TRUE]
Unreadable(name) == [name |-> name, data |-> "", readable |-> FALSE]

MyEtc == <<"/", "m", "y", "_", "e", "t", "c">>
EmptyDir == <<"/", "e">>
NoYamlDir == <<"/", "n">>
BadDir == <<"/", "b">>
LockedDir == <<"/", "l">>
SmallDir == <<"/", "s">>
DotDir == <<"/", "d">>
MissingDir == <<"/", "m">>
MetaDir == <<"/", "[">>      \* an empty directory whose name is "["
MixedDir == <<"/", "x">>

DirEntries(dir) ==
  CASE dir = MyEtc -> <<File(<<"a", "a", "a">> \o Suffix, AaaYaml),
                        File(<<"g", "o", "g", "o">> \o Suffix, GogoYaml),
                        File(<<"x", ".", "t", "x", "t">>, BadYaml)>>
    [] dir = EmptyDir -> <<>>
    [] dir = NoYamlDir -> <<File(<<"a", ".", "t", "x", "t">>, AaaYaml),
                            File(<<"y", "a", "m", "l">>, GogoYaml)>>
    [] dir = BadDir -> <<File(<<"a", "a", "a">> \o Suffix, BadYaml),
                         File(<<"g", "o", "g", "o">> \o Suffix, GogoYaml)>>
    [] dir = LockedDir -> <<Unreadable(<<"a">> \o Suffix)>>
    [] dir = MixedDir -> <<Unreadable(<<"a">> \o Suffix), File(<<"b">> \o Suffix, BadYaml)>>
    [] dir = SmallDir -> <<File(<<"a">> \o Suffix, SmallYaml)>>
    [] dir = DotDir -> <<File(Suffix, SmallYaml), File(<<"a">> \o Suffix, GogoYaml)>>
    [] OTHER -> <<>>

DirExists(dir) ==
  dir \in {MyEtc, EmptyDir, NoYamlDir, BadDir, LockedDir, MixedDir, SmallDir, DotDir, MetaDir}

(***************************************************************************)
(* Errors: fmt.Errorf("<op>; <subject>: %w", cause).                       *)
(***************************************************************************)
NoErr == [op |-> ""]
Errorf(op, subject, cause) == [op |-> op, subject |-> subject, cause |-> cause]

HasSuffix(s, x) == Len(s) >= Len(x) /\ SubSeq(s, Len(s) - Len(x) + 1, Len(s)) = x

\* TrimSuffix with a fault: the suffix stays
TrimSuffix_kept(s, x) == s

TrimSuffix(s, x) == IF HasSuffix(s, x) THEN SubSeq(s, 1, Len(s) - Len(x)) ELSE s

\* Glob with a fault: a directory that is missing is reported
Glob_strict(dir) ==
  IF ~DirExists(dir)
    THEN [err |-> "file does not exist", paths |-> <<>>]
    ELSE [err |-> "",
          paths |-> SelectSeq(DirEntries(dir), LAMBDA f : HasSuffix(f.name, Suffix))]

\* afero.Glob(fs, dirPath/*.yaml): like filepath.Glob it ignores every error
\* of the file system (a directory that is missing or cannot be opened has
\* no matches) and reports only a malformed pattern; dirPath is part of the
\* pattern, so a '[' in it that is not closed makes the pattern malformed
Glob(dir) ==
  IF \E i \in 1..Len(dir) : dir[i] = "["
    THEN [err |-> "syntax error in pattern", paths |-> <<>>]
    ELSE [err |-> "",
          paths |-> IF DirExists(dir)
                      THEN SelectSeq(DirEntries(dir), LAMBDA f : HasSuffix(f.name, Suffix))
                      ELSE <<>>]

\* the order of bytes, for the keys json.Marshal sorts
ByteVal(c) ==
  CASE c = "." -> 46 [] c = "-" -> 45 [] c = "_" -> 95
    [] c \in Digits -> 48 + DigitVal(c)
    [] OTHER -> 96 + (CHOOSE i \in 1..Len(Alphabet) : Alphabet[i] = c)

\* a < b for byte strings
RECURSIVE LessStr(_, _)
LessStr(a, b) ==
  IF b = <<>> THEN FALSE
  ELSE IF a = <<>> THEN TRUE
  ELSE IF Head(a) /= Head(b) THEN ByteVal(Head(a)) < ByteVal(Head(b))
  ELSE LessStr(Tail(a), Tail(b))

RECURSIVE Marshal(_)
\* json.Marshal(map[string]json.RawMessage): an object, members sorted by key
Marshal(m) ==
  IF DOMAIN m = {} THEN Obj(<<>>)
  ELSE LET k == CHOOSE x \in DOMAIN m : \A y \in DOMAIN m \ {x} : LessStr(x, y)
           rest == Marshal([y \in DOMAIN m \ {k} |-> m[y]])
       IN Obj(<<KV(JoinStr(k), m[k])>> \o rest.kv)

RECURSIVE gatherFiles_skips(_, _, _)
\* gatherFiles with a fault: a file that does not convert is left out
gatherFiles_skips(dir, files, rawConfigs) ==
  IF files = <<>> THEN [err |-> NoErr, tree |-> Marshal(rawConfigs)]
  ELSE LET f == Head(files)
           filePath == dir \o <<"/">> \o f.name
           configName == TrimSuffix(f.name, Suffix)
           conv == YAMLToJSONStrict(f.data)
       IN IF ~f.readable
            THEN [err |-> Errorf("read file", "filePath=" \o Quote(filePath), "permission denied")]
          ELSE IF conv.err /= ""
            THEN gatherFiles_skips(dir, Tail(files), rawConfigs)
          ELSE gatherFiles_skips(dir, Tail(files),
                                 [k \in DOMAIN rawConfigs \cup {configName} |->
                                    IF k = configName THEN conv.tree ELSE rawConfigs[k]])

RECURSIVE gatherFiles(_, _, _)
\* the loop of gatherConfigs over the matched files: read, convert, put
\* under the base name without the suffix; the first failure ends it
gatherFiles(dir, files, rawConfigs) ==
  IF files = <<>> THEN [err |-> NoErr, tree |-> Marshal(rawConfigs)]
  ELSE LET f == Head(files)
           filePath == dir \o <<"/">> \o f.name
           configName == TrimSuffix(f.name, Suffix)
           conv == YAMLToJSONStrict(f.data)
       IN IF ~f.readable
            THEN [err |-> Errorf("read file", "filePath=" \o Quote(filePath), "permission denied")]
          ELSE IF conv.err /= ""
            THEN [err |-> Errorf("convert yaml to json", "filePath=" \o Quote(filePath), conv.err)]
          ELSE gatherFiles(dir, Tail(files),
                           [k \in DOMAIN rawConfigs \cup {configName} |->
                              IF k = configName THEN conv.tree ELSE rawConfigs[k]])

\* gatherConfigs(fs, dirPath)
gatherConfigs(dir) ==
  LET g == Glob(dir)
  IN IF g.err /= ""
       THEN [err |-> Errorf("find files", "pattern=" \o Quote(dir \o <<"/", "*">> \o Suffix), g.err)]
       ELSE gatherFiles(dir, g.paths, [k \in {} |-> Null])

(***************************************************************************)
(* The overrides.                                                          *)
(***************************************************************************)
keyPrefix == <<"C", "O", "N", "F", "I", "G", "S", "E", "T", ".">>

RECURSIVE extractKVs_last(_)
\* extractKVs with a fault: an entry is cut at its last '='
extractKVs_last(environment) ==
  IF environment = <<>> THEN <<>>
  ELSE LET rawKV == Head(environment)
           n == IF \E k \in 1..Len(rawKV) : rawKV[k] = "="
                  THEN (CHOOSE k \in 1..Len(rawKV) :
                          rawKV[k] = "=" /\ \A m \in (k + 1)..Len(rawKV) : rawKV[m] /= "=") - 1
                  ELSE -1
       IN IF ~HasPrefix(rawKV, keyPrefix) \/ n < 0
            THEN extractKVs_last(Tail(environment))
            ELSE <<<<SubSeq(rawKV, 1, n), SubSeq(rawKV, n + 2, Len(rawKV))>>>>
                 \o extractKVs_last(Tail(environment))

RECURSIVE extractKVs(_)
\* extractKVs(environment): the entries with the prefix and a '=', each cut
\* at the first '=' into key and value, in the order of the environment
extractKVs(environment) ==
  IF environment = <<>> THEN <<>>
  ELSE LET rawKV == Head(environment)
           i == IndexByte(rawKV, "=")
       IN IF ~HasPrefix(rawKV, keyPrefix) \/ i < 0
            THEN extractKVs(Tail(environment))
            ELSE <<<<SubSeq(rawKV, 1, i), SubSeq(rawKV, i + 2, Len(rawKV))>>>>
                 \o extractKVs(Tail(environment))

\* overwriteOne with a fault: a value that does not convert is passed over
overwriteOne_skips(rawConfigSet, kv) ==
  LET key == kv[1]
      value == kv[2]
      data == YAMLToJSONStrict(JoinStr(value))
      path == SubSeq(key, Len(keyPrefix) + 1, Len(key))
      set == SetRawBytesOptions(rawConfigSet, path, data.tree)
  IN IF data.err /= ""
       THEN [err |-> NoErr, tree |-> rawConfigSet]
     ELSE IF set.err /= ""
       THEN [err |-> Errorf("set json value", "path=" \o Quote(path), set.err)]
     ELSE [err |-> NoErr, tree |-> set.tree]

\* the body of the loop of overwriteConfigSet for one pair: convert the
\* value, cut the prefix off the key, set the value at the path
overwriteOne(rawConfigSet, kv) ==
  LET key == kv[1]
      value == kv[2]
      data == YAMLToJSONStrict(JoinStr(value))
      path == SubSeq(key, Len(keyPrefix) + 1, Len(key))
      set == SetRawBytesOptions(rawConfigSet, path, data.tree)
  IN IF data.err /= ""
       THEN [err |-> Errorf("convert yaml to json",
                            "key=" \o Quote(key) \o " value=" \o Quote(value), data.err)]
     ELSE IF set.err /= ""
       THEN [err |-> Errorf("set json value", "path=" \o Quote(path), set.err)]
     ELSE [err |-> NoErr, tree |-> set.tree]

RECURSIVE overwriteKVs(_, _)
overwriteKVs(rawConfigSet, kvs) ==
  IF kvs = <<>> THEN [err |-> NoErr, tree |-> rawConfigSet]
  ELSE LET r == overwriteOne(rawConfigSet, Head(kvs))
       IN IF r.err /= NoErr THEN r ELSE overwriteKVs(r.tree, Tail(kvs))

\* overwriteConfigSet(rawConfigSet, environment)
overwriteConfigSet(rawConfigSet, environment) ==
  overwriteKVs(rawConfigSet, extractKVs(environment))

(***************************************************************************)
(* Reading: configSet.ReadValue and configSet.Dump.                        *)
(***************************************************************************)
NumberTexts == {"1", "2", "3", "5", "7", "8", "-2", "22", "100"}
JSONKind(tr) ==
  CASE tr.t = "obj" -> "object"
    [] tr.t = "arr" -> "array"
    [] tr.raw = "null" -> "null"
    [] tr.raw \in NumberTexts -> "number"
    [] OTHER -> "string"

RECURSIVE Value(_)
\* the Go value json.Unmarshal builds for interface{}: an object becomes a
\* map, in which the order of the members is gone and the last of equal
\* keys stands
Value(tr) ==
  CASE tr.t = "obj" ->
         [t |-> "map",
          m |-> [key \in {tr.kv[i].k : i \in 1..Len(tr.kv)} |->
                   Value(tr.kv[CHOOSE i \in 1..Len(tr.kv) :
                                  /\ tr.kv[i].k = key
                                  /\ \A j \in (i + 1)..Len(tr.kv) : tr.kv[j].k /= key].v)]]
    [] tr.t = "arr" -> [t |-> "slice", el |-> [i \in 1..Len(tr.el) |-> Value(tr.el[i])]]
    [] OTHER -> tr

\* Unmarshal with a fault: every value fits every type
Unmarshal_any(tr, configType) == [err |-> "", value |-> Value(tr)]

\* json.Unmarshal(value, config): null fits every type and leaves the
\* target as it is
Unmarshal(tr, configType) ==
  LET kind == JSONKind(tr)
      fits == \/ configType = "interface{}"
              \/ kind = "null"
              \/ configType = "int" /\ kind = "number"
              \/ configType = "string" /\ kind = "string"
              \/ /\ configType = "[]int" /\ kind = "array"
                 /\ \A i \in 1..Len(tr.el) : JSONKind(tr.el[i]) \in {"number", "null"}
  IN IF fits THEN [err |-> "", value |-> Value(tr)]
     ELSE [err |-> "json: cannot unmarshal " \o kind \o " into Go value of type " \o configType]

ErrValueNotFound == "configset: value not found"

\* ReadValueOf with a fault: a path that leads nowhere reads as null
ReadValueOf_null(doc, path, configType) ==
  LET found == IF doc = Nil THEN None ELSE GetBytes(doc, path)
      value == IF found = None THEN Null ELSE found
      u == Unmarshal(value, configType)
  IN IF u.err /= ""
       THEN [err |-> Errorf("unmarshal from json",
                            "path=" \o Quote(path) \o " configType=" \o Q("*" \o configType),
                            u.err)]
     ELSE [err |-> NoErr, config |-> u.value]

\* ReadValue on the document doc; config is a pointer to a configType
ReadValueOf(doc, path, configType) ==
  LET value == IF doc = Nil THEN None ELSE GetBytes(doc, path)
      u == Unmarshal(value, configType)
  IN IF value = None
       THEN [err |-> Errorf(ErrValueNotFound, "path=" \o Quote(path), "")]
     ELSE IF u.err /= ""
       THEN [err |-> Errorf("unmarshal from json",
                            "path=" \o Quote(path) \o " configType=" \o Q("*" \o configType),
                            u.err)]
     ELSE [err |-> NoErr, config |-> u.value]

RECURSIVE Repeat(_, _)
Repeat(str, n) == IF n <= 0 THEN "" ELSE str \o Repeat(str, n - 1)

RECURSIVE Indent(_, _, _, _)
RECURSIVE IndentMembers(_, _, _, _)
RECURSIVE IndentElements(_, _, _, _)
\* json.Indent: every member and element on a line of its own that starts
\* with prefix and depth copies of indention; empty containers stay closed
Indent(tr, prefix, indention, depth) ==
  LET nl(d) == "\n" \o prefix \o Repeat(indention, d)
  IN CASE tr.t = "obj" /\ tr.kv /= <<>> ->
            "{" \o IndentMembers(tr.kv, prefix, indention, depth + 1) \o nl(depth) \o "}"
       [] tr.t = "arr" /\ tr.el /= <<>> ->
            "[" \o IndentElements(tr.el, prefix, indention, depth + 1) \o nl(depth) \o "]"
       [] OTHER -> Encode(tr)
IndentMembers(kvs, prefix, indention, depth) ==
  IF kvs = <<>> THEN ""
  ELSE "\n" \o prefix \o Repeat(indention, depth) \o Q(Head(kvs).k) \o ": "
       \o Indent(Head(kvs).v, prefix, indention, depth)
       \o (IF Len(kvs) > 1 THEN "," ELSE "")
       \o IndentMembers(Tail(kvs), prefix, indention, depth)
IndentElements(els, prefix, indention, depth) ==
  IF els = <<>> THEN ""
  ELSE "\n" \o prefix \o Repeat(indention, depth)
       \o Indent(Head(els), prefix, indention, depth)
       \o (IF Len(els) > 1 THEN "," ELSE "")
       \o IndentElements(Tail(els), prefix, indention, depth)

\* Dump on the document doc
DumpOf(doc, prefix, indention) ==
  IF prefix = "" /\ indention = "" THEN Encode(doc)
  ELSE Indent(doc, prefix, indention, 0) \o "\n"

(***************************************************************************)
(* Inputs: environments.                                                   *)
(***************************************************************************)
Entry(chars) == keyPrefix \o chars

Aaa == <<"a", "a", "a">>
Gogo == <<"g", "o", "g", "o">>
Numbers == <<"n", "u", "m", "b", "e", "r", "s">>
Version == <<"v", "e", "r", "s", "i", "o", "n">>
XYZChars == <<"{", "\"", "x", "\"", ":", " ", "1", ",", " ", "\"", "y", "\"", ":", " ", "2",
              ",", " ", "\"", "z", "\"", ":", " ", "3", "}">>

FooBar == <<"F", "O", "O", "=", "B", "A", "R">>
SetHello == Entry(Aaa \o <<".", "h", "e", "l", "l", "o", "=", "\"", "h", "i", "\"">>)
SetNumber1 == Entry(Aaa \o <<".">> \o Numbers \o <<".", "1", "=", "-", "2">>)
SetVersionY == Entry(Gogo \o <<".">> \o Version \o <<".", "y", "=", "2", "2">>)
SetVersion == Entry(Gogo \o <<".">> \o Version \o <<"=">> \o XYZChars)
SetFooBar == Entry(<<"f", "o", "o", ".", "b", "a", "r", "=", "1", "0", "0">>)
BadValue == Entry(Aaa \o <<".", "h", "e", "l", "l", "o", "=", "'">>)
EmptyPath == Entry(<<"=", "1">>)
NumbersX == Entry(Aaa \o <<".">> \o Numbers \o <<".", "x", "=", "7">>)
SetNumber4 == Entry(Aaa \o <<".">> \o Numbers \o <<".", "4", "=", "7">>)
SetZero == Entry(<<"0", "=", "7">>)

\* the environment of TestLoadConfigSet, "environment with good overriding values"
GoodEnvironment == <<FooBar, SetHello, SetNumber1, SetVersionY, SetVersion>>

\* the calls of Load: a directory and an environment
Call(d, e) == [dirPath |-> d, environment |-> e]
Calls ==
  {Call(MyEtc, <<>>), Call(MyEtc, GoodEnvironment), Call(MyEtc, <<SetHello, BadValue>>),
   Call(MyEtc, <<SetNumber1, EmptyPath>>), Call(MyEtc, <<SetHello, NumbersX>>),
   Call(MyEtc, <<BadValue, EmptyPath>>), Call(MyEtc, <<SetNumber4>>), Call(MixedDir, <<>>),
   Call(SmallDir, <<SetZero>>),
   Call(EmptyDir, <<>>), Call(EmptyDir, <<SetFooBar>>), Call(NoYamlDir, <<FooBar>>),
   Call(BadDir, <<>>), Call(BadDir, <<BadValue>>), Call(LockedDir, <<>>),
   Call(SmallDir, <<>>), Call(DotDir, <<>>), Call(MissingDir, <<SetFooBar>>), Call(MetaDir, <<>>)}

\* the entries the patch fold is tried on, over the documents of SmallDir
\* ({"a":{"n":[1,2],"s":1}}) and EmptyDir ({})
PatchMenu ==
  {Entry(<<"a", ".", "n", ".", "0", "=", "7">>),
   Entry(<<"a", ".", "n", ".", "0", "=", "8">>),
   Entry(<<"a", ".", "n", ".", "3", "=", "7">>),
   Entry(<<"a", ".", "n", ".", "-", "1", "=", "7">>),
   Entry(<<"a", ".", "n", ".", "-", "1", "=", "8">>),
   Entry(<<"a", ".", "n", ".", "x", "=", "7">>),
   Entry(<<"a", ".", "s", ".", "y", "=", "7">>),
   Entry(<<"a", ".", "s", ".", "2", "=", "7">>),
   Entry(<<"a", ".", "s", "=", "8">>),
   Entry(<<"b", ".", "0", "=", "7">>),
   Entry(<<"b", ".", "k", "=", "8">>),
   Entry(<<"=", "1">>),
   Entry(<<"a", ".", "s", "=", "'">>),
   Entry(<<"b", ".", "k", "=", "a", "=", "b">>),
   Entry(<<"a", ".", "s">>),
   <<"F", "O", "O", "=", "B">>}

\* the entries of PatchMenu of which the longer lists are made
CoreMenu ==
  {Entry(<<"a", ".", "n", ".", "0", "=", "7">>),
   Entry(<<"a", ".", "n", ".", "0", "=", "8">>),
   Entry(<<"a", ".", "n", ".", "-", "1", "=", "7">>),
   Entry(<<"a", ".", "s", ".", "y", "=", "7">>),
   Entry(<<"a", ".", "s", ".", "2", "=", "7">>),
   Entry(<<"a", ".", "s", "=", "8">>),
   Entry(<<"=", "1">>),
   Entry(<<"a", ".", "s", "=", "'">>),
   Entry(<<"b", ".", "k", "=", "a", "=", "b">>),
   Entry(<<"a", ".", "s">>)}

RECURSIVE SeqsUpTo(_, _)
SeqsUpTo(S, n) ==
  IF n = 0 THEN {<<>>}
  ELSE LET shorter == SeqsUpTo(S, n - 1)
       IN shorter \cup {Append(q, x) : q \in shorter, x \in S}

PatchDirs == {SmallDir, EmptyDir}
PatchEnvironments == SeqsUpTo(PatchMenu, MaxPair) \cup SeqsUpTo(CoreMenu, MaxEnv)

MissingPath == <<"m", "i", "s", "s", "i", "n", "g", ".", "p", "a", "t", "h">>
Read(path, configType) == [path |-> path, configType |-> configType]
\* the calls of ReadValue: a path and the type of the target
Reads ==
  {Read(<<>>, "interface{}"),
   Read(Gogo \o <<".">> \o Version, "interface{}"),
   Read(Gogo \o <<".">> \o Version, "string"),
   Read(<<"f", "o", "o", ".", "b", "a", "r">>, "int"),
   Read(MissingPath, "int"),
   Read(Gogo \o <<".", "a", "u", "t", "h", "o", "r">>, "int"),
   Read(Gogo \o <<".", "a", "u", "t", "h", "o", "r">>, "string"),
   Read(Aaa \o <<".">> \o Numbers, "int"),
   Read(Aaa \o <<".">> \o Numbers \o <<".", "3">>, "int"),
   Read(Aaa \o <<".">> \o Numbers \o <<".", "#">>, "int")}
DumpOptions == {<<"", "">>, <<"", "  ">>}

(***************************************************************************)
(* State.                                                                  *)
(***************************************************************************)
VARIABLES
  csraw,        \* cs.raw, a slice header: the document it points to and its length
  pc,           \* where the Load in flight stands: "idle", "overwrite", "store"
  dirPath,      \* Load's argument dirPath
  environment,  \* Load's argument environment
  gathered,     \* what gatherConfigs returned to Load
  raw,          \* Load's local raw
  kvs,          \* overwriteConfigSet's kvs
  i,            \* the number of pairs of kvs applied so far
  stored,       \* the words of cs.raw the assignment cs.raw = raw has written
  err,          \* what the last Load returned
  before,       \* cs.raw when the last Load was called
  loads,        \* the number of Load calls so far
  out           \* what a ReadValue or Dump has just returned

vars == <<csraw, pc, dirPath, environment, gathered, raw, kvs, i, stored, err, before, loads, out>>

RawLen(doc) == IF doc = Nil THEN 0 ELSE Len(Encode(doc))
Header(doc) == [data |-> doc, len |-> RawLen(doc)]
Torn == [t |-> "torn"]

\* what a reader of cs.raw gets: the document, or, when the two words of
\* the slice header belong to different documents, a range of bytes that is
\* neither
Observed(h) == IF h.len = RawLen(h.data) THEN h.data ELSE Torn

NoCall == [op |-> "none"]

Init ==
  /\ csraw = Header(Nil)
  /\ pc = "idle"
  /\ dirPath = <<>>
  /\ environment = <<>>
  /\ gathered = Nil
  /\ raw = Nil
  /\ kvs = <<>>
  /\ i = 0
  /\ stored = {}
  /\ err = NoErr
  /\ before = Header(Nil)
  /\ loads = 0
  /\ out = NoCall

(***************************************************************************)
(* configSet.Load, in the steps at which a reader can run.                 *)
(***************************************************************************)
\* LoadGather with a fault: a failure of gatherConfigs leaves cs.raw nil
LoadGather_clears(d, e) ==
  /\ pc = "idle"
  /\ loads < MaxLoads
  /\ LET g == gatherConfigs(d)
     IN /\ dirPath' = d
        /\ environment' = e
        /\ before' = csraw
        /\ loads' = loads + 1
        /\ i' = 0
        /\ stored' = {}
        /\ IF g.err /= NoErr
             THEN /\ err' = g.err
                  /\ pc' = "idle"
                  /\ csraw' = Header(Nil)
                  /\ UNCHANGED <<gathered, raw, kvs>>
             ELSE /\ gathered' = g.tree
                  /\ raw' = g.tree
                  /\ kvs' = extractKVs(e)
                  /\ pc' = IF extractKVs(e) = <<>> THEN "store" ELSE "overwrite"
                  /\ UNCHANGED <<err, csraw>>
  /\ out' = NoCall

\* LoadGather with a fault: the overrides are applied to the tree cs.raw holds
LoadGather_merges(d, e) ==
  /\ pc = "idle"
  /\ loads < MaxLoads
  /\ LET g == gatherConfigs(d)
     IN /\ dirPath' = d
        /\ environment' = e
        /\ before' = csraw
        /\ loads' = loads + 1
        /\ i' = 0
        /\ stored' = {}
        /\ IF g.err /= NoErr
             THEN /\ err' = g.err
                  /\ pc' = "idle"
                  /\ UNCHANGED <<gathered, raw, kvs>>
             ELSE /\ gathered' = g.tree
                  /\ raw' = IF csraw.data = Nil THEN g.tree ELSE csraw.data
                  /\ kvs' = extractKVs(e)
                  /\ pc' = IF extractKVs(e) = <<>> THEN "store" ELSE "overwrite"
                  /\ UNCHANGED err
  /\ out' = NoCall
  /\ UNCHANGED csraw

\* Load is called: gatherConfigs, then extractKVs at the head of
\* overwriteConfigSet; a failure of gatherConfigs returns at once
LoadGather(d, e) ==
  /\ pc = "idle"
  /\ loads < MaxLoads
  /\ LET g == gatherConfigs(d)
     IN /\ dirPath' = d
        /\ environment' = e
        /\ before' = csraw
        /\ loads' = loads + 1
        /\ i' = 0
        /\ stored' = {}
        /\ IF g.err /= NoErr
             THEN /\ err' = g.err
                  /\ pc' = "idle"
                  /\ UNCHANGED <<gathered, raw, kvs>>
             ELSE /\ gathered' = g.tree
                  /\ raw' = g.tree
                  /\ kvs' = extractKVs(e)
                  /\ pc' = IF extractKVs(e) = <<>> THEN "store" ELSE "overwrite"
                  /\ UNCHANGED err
  /\ out' = NoCall
  /\ UNCHANGED csraw

\* Overwrite with a fault: the pairs are taken from the last to the first
Overwrite_backwards ==
  /\ pc = "overwrite"
  /\ i < Len(kvs)
  /\ LET r == overwriteOne(raw, kvs[Len(kvs) - i])
     IN IF r.err /= NoErr
          THEN /\ err' = r.err
               /\ pc' = "idle"
               /\ UNCHANGED <<raw, i>>
          ELSE /\ raw' = r.tree
               /\ i' = i + 1
               /\ pc' = IF i + 1 = Len(kvs) THEN "store" ELSE "overwrite"
               /\ UNCHANGED err
  /\ out' = NoCall
  /\ UNCHANGED <<csraw, dirPath, environment, gathered, kvs, stored, before, loads>>

\* Overwrite with a fault: the loop patches the document cs.raw holds
Overwrite_shared ==
  /\ pc = "overwrite"
  /\ i < Len(kvs)
  /\ LET r == overwriteOne(raw, kvs[i + 1])
     IN IF r.err /= NoErr
          THEN /\ err' = r.err
               /\ pc' = "idle"
               /\ UNCHANGED <<raw, i, csraw>>
          ELSE /\ raw' = r.tree
               /\ csraw' = Header(r.tree)
               /\ i' = i + 1
               /\ pc' = IF i + 1 = Len(kvs) THEN "store" ELSE "overwrite"
               /\ UNCHANGED err
  /\ out' = NoCall
  /\ UNCHANGED <<dirPath, environment, gathered, kvs, stored, before, loads>>

\* one turn of the loop of overwriteConfigSet; a failure returns from Load
Overwrite ==
  /\ pc = "overwrite"
  /\ i < Len(kvs)
  /\ LET r == overwriteOne(raw, kvs[i + 1])
     IN IF r.err /= NoErr
          THEN /\ err' = r.err
               /\ pc' = "idle"
               /\ UNCHANGED <<raw, i>>
          ELSE /\ raw' = r.tree
               /\ i' = i + 1
               /\ pc' = IF i + 1 = Len(kvs) THEN "store" ELSE "overwrite"
               /\ UNCHANGED err
  /\ out' = NoCall
  /\ UNCHANGED <<csraw, dirPath, environment, gathered, kvs, stored, before, loads>>

\* cs.raw = raw: a plain store of a slice header, one word at a time in an
\* order the compiler chooses; Load returns nil after the last one
Store(w) ==
  /\ pc = "store"
  /\ w \notin stored
  /\ csraw' = IF w = "data" THEN [csraw EXCEPT !.data = raw]
              ELSE [csraw EXCEPT !.len = RawLen(raw)]
  /\ stored' = stored \cup {w}
  /\ IF stored \cup {w} = {"data", "len"}
       THEN pc' = "idle" /\ err' = NoErr
       ELSE UNCHANGED <<pc, err>>
  /\ out' = NoCall
  /\ UNCHANGED <<dirPath, environment, gathered, raw, kvs, i, before, loads>>

(***************************************************************************)
(* The readers.                                                            *)
(***************************************************************************)
ReadValue(path, configType) ==
  /\ LET doc == Observed(csraw)
     IN out' = [op |-> "ReadValue", path |-> path, configType |-> configType, at |-> pc,
                doc |-> doc,
                res |-> IF doc = Torn THEN Torn ELSE ReadValueOf(doc, path, configType)]
  /\ UNCHANGED <<csraw, pc, dirPath, environment, gathered, raw, kvs, i, stored, err, before, loads>>

Dump(prefix, indention) ==
  /\ LET doc == Observed(csraw)
     IN out' = [op |-> "Dump", prefix |-> prefix, indention |-> indention, at |-> pc,
                doc |-> doc,
                res |-> IF doc = Torn THEN Torn ELSE DumpOf(doc, prefix, indention)]
  /\ UNCHANGED <<csraw, pc, dirPath, environment, gathered, raw, kvs, i, stored, err, before, loads>>

Next ==
  \/ \E c \in Calls : LoadGather(c.dirPath, c.environment)
  \/ Overwrite
  \/ \E w \in {"data", "len"} : Store(w)
  \/ \E r \in Reads : ReadValue(r.path, r.configType)
  \/ \E o \in DumpOptions : Dump(o[1], o[2])

Spec == Init /\ [][Next]_vars

(***************************************************************************)
(* The patch fold on its own: overwriteConfigSet on the document of a      *)
(* directory and every environment of PatchEnvironments.                   *)
(***************************************************************************)
InitPatch ==
  /\ csraw = Header(Nil)
  /\ dirPath \in PatchDirs
  /\ environment \in PatchEnvironments
  /\ gathered = gatherConfigs(dirPath).tree
  /\ raw = gathered
  /\ kvs = extractKVs(environment)
  /\ pc = IF kvs = <<>> THEN "store" ELSE "overwrite"
  /\ i = 0
  /\ stored = {}
  /\ err = NoErr
  /\ before = Header(Nil)
  /\ loads = 1
  /\ out = NoCall

NextPatch == Overwrite

SpecPatch == InitPatch /\ [][NextPatch]_vars

(***************************************************************************)
(* Vocabulary of the properties.                                           *)
(***************************************************************************)
PathOf(kv) == SubSeq(kv[1], Len(keyPrefix) + 1, Len(kv[1]))
SegsOf(kv) == SplitPath(PathOf(kv))
Converts(kv) == YAMLToJSONStrict(JoinStr(kv[2])).err = ""
DataOf(kv) == YAMLToJSONStrict(JoinStr(kv[2])).tree

IsPrefixOf(a, b) == Len(a) <= Len(b) /\ SubSeq(b, 1, Len(a)) = a
\* two paths of which one leads to or through the place of the other
Related(a, b) == IsPrefixOf(a, b) \/ IsPrefixOf(b, a)
HasAppendSeg(segs) == \E n \in 1..Len(segs) : segs[n] = AppendSeg

\* the segments at which two paths part are both numbers or both names
PartAlike(a, b) ==
  LET n == CHOOSE n \in 1..Len(a) : n <= Len(b) /\ a[n] /= b[n] /\ SubSeq(a, 1, n - 1) = SubSeq(b, 1, n - 1)
  IN IsUint(a[n]) <=> IsUint(b[n])

FoldSucceeded == pc = "store"
FoldFailed == pc = "idle" /\ err /= NoErr

\* C1 as stated: of two entries on one path with different values, all
\* other entries after the first being on unrelated paths, the tree of a
\* successful load holds the value of the later one at that path
C1_LaterWinsAnyPath ==
  FoldSucceeded =>
    \A j \in 1..Len(kvs), k \in 1..Len(kvs) :
      ( /\ j < k
        /\ PathOf(kvs[j]) = PathOf(kvs[k])
        /\ kvs[j][2] /= kvs[k][2]
        /\ \A m \in (j + 1)..Len(kvs) : m /= k => ~Related(SegsOf(kvs[m]), SegsOf(kvs[k])) )
      => GetBytes(raw, PathOf(kvs[k])) = DataOf(kvs[k])

\* C1 amended: the same for a path none of whose segments is "-1"
C1_LaterWins ==
  FoldSucceeded =>
    \A j \in 1..Len(kvs), k \in 1..Len(kvs) :
      ( /\ j < k
        /\ PathOf(kvs[j]) = PathOf(kvs[k])
        /\ kvs[j][2] /= kvs[k][2]
        /\ ~HasAppendSeg(SegsOf(kvs[k]))
        /\ \A m \in (j + 1)..Len(kvs) : m /= k => ~Related(SegsOf(kvs[m]), SegsOf(kvs[k])) )
      => GetBytes(raw, PathOf(kvs[k])) = DataOf(kvs[k])

\* a successful fold of three pairs, the first and the last on one path
\* with different values and an unrelated one between them
C1_Witness ==
  /\ FoldSucceeded
  /\ Len(kvs) = 3
  /\ PathOf(kvs[1]) = PathOf(kvs[3])
  /\ kvs[1][2] /= kvs[3][2]
  /\ ~HasAppendSeg(SegsOf(kvs[3]))
  /\ ~Related(SegsOf(kvs[2]), SegsOf(kvs[3]))
  /\ GetBytes(raw, PathOf(kvs[3])) = DataOf(kvs[3])

\* C5 as stated: right after a pair has been written, ReadValue of its
\* path on the tree finds a value and decodes the value that was supplied
C5_ReadBackAnyPath ==
  (pc \in {"overwrite", "store"} /\ i >= 1) =>
    LET r == ReadValueOf(raw, PathOf(kvs[i]), "interface{}")
    IN r.err = NoErr /\ r.config = Value(DataOf(kvs[i]))

\* C5 amended: the same for a path none of whose segments is "-1"
C5_ReadBack ==
  (pc \in {"overwrite", "store"} /\ i >= 1 /\ ~HasAppendSeg(SegsOf(kvs[i]))) =>
    LET r == ReadValueOf(raw, PathOf(kvs[i]), "interface{}")
    IN r.err = NoErr /\ r.config = Value(DataOf(kvs[i]))

\* a pair written past the end of an array and read back
C5_Witness ==
  /\ pc \in {"overwrite", "store"}
  /\ i >= 1
  /\ PathOf(kvs[i]) = <<"a", ".", "n", ".", "3">>
  /\ ReadValueOf(raw, PathOf(kvs[i]), "interface{}").config = Val("7")

NoAppendSegs(S) == \A n \in 1..Len(S) : ~HasAppendSeg(SegsOf(S[n]))

PartsAlike(S) ==
  \A j \in 1..Len(S), k \in 1..Len(S) :
    ~Related(SegsOf(S[j]), SegsOf(S[k])) => PartAlike(SegsOf(S[j]), SegsOf(S[k]))

TwoDisjoint ==
  /\ Len(kvs) = 2
  /\ FoldSucceeded \/ FoldFailed
  /\ PathOf(kvs[1]) /= <<>>
  /\ PathOf(kvs[2]) /= <<>>
  /\ ~Related(SegsOf(kvs[1]), SegsOf(kvs[2]))

\* the same two pairs in the other order, on the same document
Swapped == overwriteKVs(gathered, <<kvs[2], kvs[1]>>)

\* C7 as stated: both orders succeed or both fail, and the documents of two
\* successes are equal (the order of members aside)
C7_CommuteAnyPaths ==
  TwoDisjoint =>
    /\ FoldSucceeded <=> Swapped.err = NoErr
    /\ FoldSucceeded => Value(raw) = Value(Swapped.tree)

\* C7 amended: for paths without a segment "-1", two successes give equal
\* documents, and the two orders succeed or fail together when the
\* segments at which the paths part are both numbers or both names
C7_Commute ==
  (TwoDisjoint /\ NoAppendSegs(kvs)) =>
    /\ (FoldSucceeded /\ Swapped.err = NoErr) => Value(raw) = Value(Swapped.tree)
    /\ PartAlike(SegsOf(kvs[1]), SegsOf(kvs[2])) => (FoldSucceeded <=> Swapped.err = NoErr)

\* two pairs on disjoint paths, both of which changed the document
C7_Witness ==
  /\ TwoDisjoint
  /\ NoAppendSegs(kvs)
  /\ FoldSucceeded
  /\ Swapped.err = NoErr
  /\ overwriteOne(gathered, kvs[1]).tree /= gathered
  /\ raw /= overwriteOne(gathered, kvs[1]).tree
  /\ Value(raw) = Value(Swapped.tree)

\* on the way of the segments through the tree stands a value of another
\* kind than the next segment asks for: an array before a name, an object
\* before a number, or a scalar
Conflict(tr, segs) ==
  \E m \in 0..(Len(segs) - 1) :
    LET v == GetSegs(tr, SubSeq(segs, 1, m))
    IN /\ v /= None
       /\ \/ v.t = "arr" /\ ~IsUint(segs[m + 1])
          \/ v.t = "obj" /\ IsUint(segs[m + 1])
          \/ v.t = "val"

\* on the way stands an array before a segment that is neither a number
\* nor "-1"
ArrayConflict(tr, segs) ==
  \E m \in 0..(Len(segs) - 1) :
    LET v == GetSegs(tr, SubSeq(segs, 1, m))
    IN v /= None /\ v.t = "arr" /\ ~IsUint(segs[m + 1]) /\ segs[m + 1] /= AppendSeg

NextPair == kvs[i + 1]
Writable == pc = "overwrite" /\ Converts(NextPair) /\ PathOf(NextPair) /= <<>>
FailsNamingPath ==
  /\ pc' = "idle"
  /\ err'.op = "set json value"
  /\ err'.subject = "path=" \o Quote(PathOf(NextPair))

\* C8 as stated: every conflict of kinds between the path and the tree
\* makes the load fail with the error of the path write, naming the path
C8_AnyConflictFails ==
  [][(Writable /\ Conflict(raw, SegsOf(NextPair))) => FailsNamingPath]_vars

\* C8 amended: an array met by a segment that is neither a number nor "-1"
\* makes the load fail with the error of the path write, naming the whole
\* path of the override; the other conflicts of kinds do not fail
C8_ArrayConflictFails ==
  [][/\ (Writable /\ ArrayConflict(raw, SegsOf(NextPair))) => FailsNamingPath
     /\ (Writable /\ Conflict(raw, SegsOf(NextPair)) /\ ~ArrayConflict(raw, SegsOf(NextPair)))
          => (i' = i + 1 /\ err' = NoErr)]_vars

\* a load that failed on an array met by a name
C8_Witness ==
  /\ FoldFailed
  /\ err.op = "set json value"
  /\ ArrayConflict(raw, SegsOf(NextPair))
  /\ err.subject = "path=\"a.n.x\""

(***************************************************************************)
(* Properties of the configSet.                                            *)
(***************************************************************************)
Returned == pc = "idle" /\ loads >= 1

GoodEnvironmentDump ==
  "{\"aaa\":{\"hello\":\"hi\",\"numbers\":[1,-2,3]},"
  \o "\"gogo\":{\"author\":\"roy\",\"version\":{\"x\":1,\"y\":22,\"z\":3}}}"

\* C2: after Load of the directory of aaa.yaml and gogo.yaml with the four
\* overrides in the order of the test, Load has succeeded and the compact
\* dump is the text TestLoadConfigSet expects, with "y":22
C2_GoodEnvironment ==
  ( /\ Returned
    /\ dirPath = MyEtc
    /\ environment = GoodEnvironment
    /\ out.op = "Dump" /\ out.prefix = "" /\ out.indention = "" )
  => (err = NoErr /\ out.res = GoodEnvironmentDump)

\* C3: when Load has returned an error, cs.raw is what it was when Load was
\* called
C3_FailedLoadKeepsTree == (Returned /\ err /= NoErr) => csraw = before

\* a reload that failed in the path write, the tree of the load before it
\* still in place
C3_Witness ==
  /\ Returned
  /\ err.op = "set json value"
  /\ before.data /= Nil
  /\ csraw = before

StoreUnderWay == pc = "store" /\ stored /= {}
OldOrNew == IF pc = "idle" /\ err = NoErr THEN raw ELSE before.data

\* C4 as stated: whenever a reader runs, it gets the whole tree of the last
\* successful load (or none) or the whole tree of the load in flight
C4_ReadersAnywhere ==
  out.op /= "none" =>
    \/ out.doc = before.data
    \/ out.doc = raw /\ (pc = "store" \/ (pc = "idle" /\ err = NoErr))

\* C4 amended: cs.raw is untouched until the assignment at the end of a
\* successful Load, and a reader that does not run between the stores of
\* the words of that assignment gets the whole old or the whole new tree
C4_Readers ==
  /\ (pc = "overwrite" \/ (pc = "store" /\ stored = {})) => csraw = before
  /\ (out.op /= "none" /\ ~StoreUnderWay) => out.doc = OldOrNew

\* a reader that ran in the middle of the patching of a reload and got the
\* tree of the load before
C4_Witness ==
  /\ out.op = "ReadValue"
  /\ pc = "overwrite"
  /\ i >= 1
  /\ before.data /= Nil
  /\ raw /= gathered
  /\ out.doc = before.data
  /\ out.doc /= raw

\* C9 as stated: Load of a directory that does not exist returns the error
\* of the listing and stores no tree
C9_MissingDirectoryFails ==
  (Returned /\ ~DirExists(dirPath)) => (err.op = "find files" /\ csraw = before)

\* C9 amended: Load of a directory that does not exist finds no file and
\* goes on as for an empty directory: it returns nil and stores the empty
\* object with the overrides applied; the error of the listing is returned
\* for a pattern that is malformed, and then no tree is stored
C9_MissingDirectoryLoads ==
  /\ (Returned /\ ~DirExists(dirPath)) =>
       LET r == overwriteConfigSet(Obj(<<>>), environment)
       IN IF r.err = NoErr THEN err = NoErr /\ csraw = Header(r.tree)
          ELSE err = r.err /\ csraw = before
  /\ (Returned /\ err /= NoErr /\ err.op = "find files") =>
       (err.cause = "syntax error in pattern" /\ csraw = before)

\* Load of the missing directory with the override foo.bar=100 has returned
\* nil, and the tree is {"foo":{"bar":100}}
C9_Witness ==
  /\ Returned
  /\ dirPath = MissingDir
  /\ err = NoErr
  /\ Encode(csraw.data) = "{\"foo\":{\"bar\":100}}"

ReadOfEmptyPath ==
  /\ out.op = "ReadValue"
  /\ out.path = <<>>
  /\ out.configType = "interface{}"
  /\ out.doc \notin {Nil, Torn}

\* C10 as stated: ReadValue("") on a loaded set decodes the whole document
C10_EmptyPathIsDocument ==
  ReadOfEmptyPath => (out.res.err = NoErr /\ out.res.config = Value(out.doc))

\* C10 amended: ReadValue("") on a loaded set looks for the top-level
\* member whose key is the empty string (the file ".yaml"): it returns
\* ErrValueNotFound when there is none and decodes that member otherwise
C10_EmptyPath ==
  ReadOfEmptyPath =>
    LET n == KeyIndex(out.doc.kv, "")
    IN IF n = 0
         THEN out.res.err.op = ErrValueNotFound /\ out.res.err.subject = "path=\"\""
         ELSE out.res.err = NoErr /\ out.res.config = Value(out.doc.kv[n].v)

\* ReadValue("") on a loaded document with members returned ErrValueNotFound
C10_Witness ==
  /\ ReadOfEmptyPath
  /\ out.doc.kv /= <<>>
  /\ out.res.err.op = ErrValueNotFound

(***************************************************************************)
(* Properties of aggregation and of reading.                               *)
(***************************************************************************)
\* the files of a directory that *.yaml matches
MatchedFiles(dir) == SelectSeq(DirEntries(dir), LAMBDA f : HasSuffix(f.name, Suffix))
\* no entry of the environment has the prefix and a '='
NoOverride(e) ==
  \A n \in 1..Len(e) : ~(HasPrefix(e[n], keyPrefix) /\ \E m \in 1..Len(e[n]) : e[n][m] = "=")

\* C11: Load of a directory that exists and holds no file matching *.yaml,
\* with no override in the environment, returns nil, and the compact dump
\* is {}
C11_NoFilesGiveEmptyObject ==
  (Returned /\ DirExists(dirPath) /\ MatchedFiles(dirPath) = <<>> /\ NoOverride(environment))
    => (err = NoErr /\ DumpOf(Observed(csraw), "", "") = "{}")

\* C12: after a successful Load without overrides the tree is an object
\* with one member for each matched file and no other, named by the file's
\* name without ".yaml" and holding the file's converted content
C12_OneKeyPerFile ==
  (Returned /\ err = NoErr /\ NoOverride(environment)) =>
    LET files == MatchedFiles(dirPath)
        doc == csraw.data
    IN /\ doc.t = "obj"
       /\ Len(doc.kv) = Len(files)
       /\ \A n \in 1..Len(files) :
            \E m \in 1..Len(doc.kv) :
              /\ doc.kv[m].k \o ".yaml" = JoinStr(files[n].name)
              /\ doc.kv[m].v = YAMLToJSONStrict(files[n].data).tree

\* Load of the directory of aaa.yaml, gogo.yaml and x.txt has returned nil,
\* and the tree has the members aaa and gogo
C12_Witness ==
  /\ Returned
  /\ err = NoErr
  /\ dirPath = MyEtc
  /\ environment = <<>>
  /\ Encode(csraw.data) = "{\"aaa\":{\"hello\":\"world\",\"numbers\":[1,2,3]},"
                           \o "\"gogo\":{\"author\":\"roy\",\"version\":1}}"

ReadOnLoaded == out.op = "ReadValue" /\ out.doc \notin {Nil, Torn}

RECURSIVE HasValueAt(_, _)
\* a value stands at the address segs of the tree: a member of an object
\* by its name, an element of an array by its index
HasValueAt(tr, segs) ==
  IF segs = <<>> THEN TRUE
  ELSE CASE tr.t = "obj" ->
              \E n \in 1..Len(tr.kv) :
                tr.kv[n].k = JoinStr(Head(segs)) /\ HasValueAt(tr.kv[n].v, Tail(segs))
         [] tr.t = "arr" ->
              /\ IsUint(Head(segs))
              /\ Atoui(Head(segs)) < Len(tr.el)
              /\ HasValueAt(tr.el[Atoui(Head(segs)) + 1], Tail(segs))
         [] OTHER -> FALSE

ReportsNotFound ==
  /\ out.res.err.op = ErrValueNotFound
  /\ out.res.err.subject = "path=" \o Quote(out.path)

\* C13 as stated: ReadValue on a loaded set, with a path at which no value
\* stands, returns ErrValueNotFound with the path
C13_AbsentAnyPath ==
  (ReadOnLoaded /\ ~HasValueAt(out.doc, SplitPath(out.path))) => ReportsNotFound

\* C13 amended: the same for a path none of whose segments is "#"; a path
\* that ends in "#" on an array reads the number of its elements
C13_Absent ==
  /\ ( /\ ReadOnLoaded
       /\ ~HasValueAt(out.doc, SplitPath(out.path))
       /\ \A n \in 1..Len(SplitPath(out.path)) : SplitPath(out.path)[n] /= CountSeg )
     => ReportsNotFound
  /\ (ReadOnLoaded /\ out.res.err = NoErr /\ ~HasValueAt(out.doc, SplitPath(out.path)))
     => LET segs == SplitPath(out.path)
            arr == GetSegs(out.doc, SubSeq(segs, 1, Len(segs) - 1))
        IN /\ segs[Len(segs)] = CountSeg
           /\ arr.t = "arr"
           /\ out.res.config = Val(Counts[Len(arr.el) + 1])

\* ReadValue("missing.path") on a loaded set with members has returned
\* ErrValueNotFound with the path
C13_Witness ==
  /\ ReadOnLoaded
  /\ out.doc.kv /= <<>>
  /\ out.path = MissingPath
  /\ out.res.err.op = ErrValueNotFound
  /\ out.res.err.subject = "path=\"missing.path\""

\* the value ReadValue found on the loaded set
FoundValue == GetBytes(out.doc, out.path)
ReadFound == ReadOnLoaded /\ HasValueAt(out.doc, SplitPath(out.path))

ReportsDecodeError ==
  /\ out.res.err.op = "unmarshal from json"
  /\ out.res.err.subject = "path=" \o Quote(out.path) \o " configType=\"*" \o out.configType \o "\""
  /\ out.res.err.cause =
       "json: cannot unmarshal " \o JSONKind(FoundValue) \o " into Go value of type " \o out.configType
  /\ out.res.err.op /= ErrValueNotFound

\* the value is of another kind than the target type holds; null is of no
\* kind of its own, json.Unmarshal takes it for every target
OtherKind(kind, configType) ==
  /\ kind /= "null"
  /\ \/ configType = "int" /\ kind /= "number"
     \/ configType = "string" /\ kind /= "string"

\* C14: ReadValue of a value that is there and is of another kind than the
\* target (a string or an array for an int, a number for a string) returns
\* the decode error, which carries the path and the type of the target and
\* wraps the diagnostic of the decoder, and which is not ErrValueNotFound
C14_MismatchFails ==
  (ReadFound /\ OtherKind(JSONKind(FoundValue), out.configType)) => ReportsDecodeError

\* ReadValue of the string gogo.author into an int has returned the decode
\* error
C14_Witness ==
  /\ ReadFound
  /\ out.configType = "int"
  /\ JSONKind(FoundValue) = "string"
  /\ out.res.err.op = "unmarshal from json"
  /\ out.res.err.subject = "path=\"gogo.author\" configType=\"*int\""

(***************************************************************************)
(* Properties of the failures of Load.                                     *)
(***************************************************************************)
HasEmptyPath(ps) == \E n \in 1..Len(ps) : PathOf(ps[n]) = <<>>
FirstEmptyPath(ps) ==
  CHOOSE n \in 1..Len(ps) : PathOf(ps[n]) = <<>> /\ \A m \in 1..(n - 1) : PathOf(ps[m]) /= <<>>
EmptyPathError == Errorf("set json value", "path=\"\"", "path cannot be empty")

\* C15 as stated: Load with an environment in which some override has the
\* empty path returns the error "path cannot be empty" of the path write
\* and leaves cs.raw as it was
C15_AnyEmptyPathFails ==
  (Returned /\ HasEmptyPath(extractKVs(environment))) => (err = EmptyPathError /\ csraw = before)

\* C15 amended: such a Load fails and leaves cs.raw as it was; the error is
\* "path cannot be empty" when the files are gathered, every pair before
\* the first one with the empty path applies, and the value of that pair
\* converts; otherwise it is the error that came first
C15_EmptyPathFails ==
  (Returned /\ HasEmptyPath(extractKVs(environment))) =>
    LET ps == extractKVs(environment)
        n == FirstEmptyPath(ps)
        g == gatherConfigs(dirPath)
    IN /\ err /= NoErr
       /\ csraw = before
       /\ ( /\ g.err = NoErr
            /\ overwriteKVs(g.tree, SubSeq(ps, 1, n - 1)).err = NoErr
            /\ Converts(ps[n]) )
          => err = EmptyPathError

\* a reload with aaa.numbers.1=-2 and then CONFIGSET.=1 has failed on the
\* empty path, the tree of the load before it still in place
C15_Witness ==
  /\ Returned
  /\ environment = <<SetNumber1, EmptyPath>>
  /\ err = EmptyPathError
  /\ before.data /= Nil
  /\ csraw = before

SomeBadValue(ps) == \E n \in 1..Len(ps) : ~Converts(ps[n])
FirstBadValue(ps) ==
  CHOOSE n \in 1..Len(ps) : ~Converts(ps[n]) /\ \A m \in 1..(n - 1) : Converts(ps[m])
\* the error of overwriteConfigSet for a value that does not convert
ConversionErrorOf(kv) ==
  Errorf("convert yaml to json", "key=" \o Quote(kv[1]) \o " value=" \o Quote(kv[2]),
         YAMLToJSONStrict(JoinStr(kv[2])).err)
FoldEnded == FoldSucceeded \/ FoldFailed
\* the fold stopped at the pair n: the pairs before it are applied, no other
StoppedAt(n) ==
  /\ FoldFailed
  /\ i = n - 1
  /\ raw = overwriteKVs(gathered, SubSeq(kvs, 1, n - 1)).tree

\* C16 as stated: when the value of some pair does not convert, the fold
\* fails with the conversion error of the first such pair, which carries
\* its key with the prefix and its value, and stops there
C16_AnyBadValueFails ==
  (FoldEnded /\ SomeBadValue(kvs)) =>
    (StoppedAt(FirstBadValue(kvs)) /\ err = ConversionErrorOf(kvs[FirstBadValue(kvs)]))

\* C16 amended: the fold fails; it fails with the conversion error of the
\* first such pair and stops there when every pair before that one applies
C16_BadValueFails ==
  (FoldEnded /\ SomeBadValue(kvs)) =>
    LET n == FirstBadValue(kvs)
    IN /\ FoldFailed
       /\ overwriteKVs(gathered, SubSeq(kvs, 1, n - 1)).err = NoErr
            => (StoppedAt(n) /\ err = ConversionErrorOf(kvs[n]))

\* a fold of three pairs that applied the first and failed on the value of
\* the second
C16_Witness ==
  /\ FoldFailed
  /\ Len(kvs) = 3
  /\ SomeBadValue(kvs)
  /\ FirstBadValue(kvs) = 2
  /\ i = 1
  /\ raw /= gathered
  /\ err.op = "convert yaml to json"
  /\ err.subject = "key=\"CONFIGSET.a.s\" value=\"'\""

Converted(f) == f.readable /\ YAMLToJSONStrict(f.data).err = ""
SomeBadFile(dir) ==
  \E n \in 1..Len(MatchedFiles(dir)) :
    MatchedFiles(dir)[n].readable /\ ~Converted(MatchedFiles(dir)[n])
FirstBadFile(dir) ==
  LET fs == MatchedFiles(dir)
  IN fs[CHOOSE n \in 1..Len(fs) :
          /\ fs[n].readable /\ ~Converted(fs[n])
          /\ \A m \in 1..(n - 1) : ~fs[m].readable \/ Converted(fs[m])]
\* the error of gatherConfigs for a file that does not convert
FileConversionErrorOf(dir, f) ==
  Errorf("convert yaml to json", "filePath=" \o Quote(dir \o <<"/">> \o f.name),
         YAMLToJSONStrict(f.data).err)

\* C17 as stated: Load of a directory in which the content of a matched
\* file does not convert returns the conversion error naming that file,
\* whatever the environment, and leaves cs.raw as it was
C17_AnyBadFileFails ==
  (Returned /\ SomeBadFile(dirPath)) =>
    (err = FileConversionErrorOf(dirPath, FirstBadFile(dirPath)) /\ csraw = before)

\* C17 amended: such a Load fails, whatever the environment, and leaves
\* cs.raw as it was; the error is the conversion error naming the first
\* file that does not convert when every matched file before it can be read
C17_BadFileFails ==
  (Returned /\ SomeBadFile(dirPath)) =>
    LET fs == MatchedFiles(dirPath)
        f == FirstBadFile(dirPath)
    IN /\ err /= NoErr
       /\ csraw = before
       /\ (\A m \in 1..Len(fs) : LessStr(fs[m].name, f.name) => fs[m].readable)
            => err = FileConversionErrorOf(dirPath, f)

\* a reload of the directory with the broken aaa.yaml, with an override
\* whose value does not convert either, has failed on the file, the tree
\* of the load before it still in place
C17_Witness ==
  /\ Returned
  /\ dirPath = BadDir
  /\ environment = <<BadValue>>
  /\ err.op = "convert yaml to json"
  /\ err.subject = "filePath=\"/b/aaa.yaml\""
  /\ before.data /= Nil
  /\ csraw = before

(***************************************************************************)
(* Properties of extraction and of one path write.                         *)
(***************************************************************************)
IsOverride(e) == HasPrefix(e, keyPrefix) /\ \E m \in 1..Len(e) : e[m] = "="
\* the places of the environment at which an override stands
OverridePlaces == {n \in 1..Len(environment) : IsOverride(environment[n])}
\* the j-th of them
Place(j) == CHOOSE n \in OverridePlaces : Cardinality({m \in OverridePlaces : m < n}) = j - 1

\* C18: the pairs extractKVs returns are the entries of the environment
\* that start with the prefix and contain '=', in the order of the
\* environment, each cut into the key before its first '=' (the prefix in
\* it) and the value after it; an entry whose key is the bare prefix is
\* among them
C18_Extract ==
  /\ Len(kvs) = Cardinality(OverridePlaces)
  /\ \A j \in 1..Len(kvs) :
       /\ kvs[j][1] \o <<"=">> \o kvs[j][2] = environment[Place(j)]
       /\ HasPrefix(kvs[j][1], keyPrefix)
       /\ \A m \in 1..Len(kvs[j][1]) : kvs[j][1][m] /= "="

\* of an entry without '=', an entry with two '=' and the entry
\* CONFIGSET.=1, the last two are returned, in that order
C18_Witness ==
  /\ Len(environment) = 3
  /\ environment[1] = Entry(<<"a", ".", "s">>)
  /\ kvs = << <<Entry(<<"b", ".", "k">>), <<"a", "=", "b">> >>, <<keyPrefix, <<"1">> >> >>

\* the addresses at which the trees of the fold hold values
Segs(chars) == SplitPath(chars)
Addresses ==
  {Segs(<<"a">>), Segs(<<"a", ".", "n">>), Segs(<<"a", ".", "s">>),
   Segs(<<"a", ".", "s", ".", "y">>), Segs(<<"a", ".", "n", ".", "x">>),
   Segs(<<"a", ".", "n", ".", "-", "1">>),
   Segs(<<"b">>), Segs(<<"b", ".", "k">>)}
  \cup {Segs(<<"a", ".", "n", ".">> \o <<d>>) : d \in Digits}
  \cup {Segs(<<"b", ".">> \o <<d>>) : d \in Digits}
  \cup {Segs(<<"a", ".", "s", ".">> \o <<d>>) : d \in Digits}

RECURSIVE CountValues(_)
RECURSIVE CountAll(_)
\* the number of values of a tree, the tree itself among them
CountValues(tr) ==
  CASE tr.t = "obj" -> 1 + CountAll([n \in 1..Len(tr.kv) |-> tr.kv[n].v])
    [] tr.t = "arr" -> 1 + CountAll(tr.el)
    [] OTHER -> 1
CountAll(trs) == IF trs = <<>> THEN 0 ELSE CountValues(Head(trs)) + CountAll(Tail(trs))

\* every value of the tree below its root stands at one of Addresses
AllAddressed(tr) ==
  Cardinality({q \in Addresses : HasValueAt(tr, q)}) = CountValues(tr) - 1

Applies == pc = "overwrite" /\ i' = i + 1

\* C19: a pair that applies leaves every value of the tree as it was whose
\* address is neither on the way to the path of the pair nor at or below it
C19_Frame ==
  [][Applies =>
       /\ AllAddressed(raw)
       /\ \A q \in Addresses :
            (HasValueAt(raw, q) /\ ~Related(q, SegsOf(NextPair)))
              => (HasValueAt(raw', q) /\ GetSegs(raw', q) = GetSegs(raw, q))]_vars

\* the pair a.n.0=7 has applied to {"a":{"n":[1,2],"s":1}}: a.n.1 and a.s
\* are as they were
C19_Witness ==
  /\ dirPath = SmallDir
  /\ i = 1
  /\ PathOf(kvs[1]) = <<"a", ".", "n", ".", "0">>
  /\ raw /= gathered
  /\ GetBytes(raw, <<"a", ".", "n", ".", "1">>) = GetBytes(gathered, <<"a", ".", "n", ".", "1">>)
  /\ GetBytes(raw, <<"a", ".", "s">>) = GetBytes(gathered, <<"a", ".", "s">>)

\* the next pair can be written and nothing stands at its path
WritesNewPath == Writable /\ ~HasValueAt(raw, SegsOf(NextPair))
Upto(segs, m) == SubSeq(segs, 1, m)

\* the containers on the way of segs that were not there before are an
\* array before a number and an object before a name, and an element put
\* past the end of an array is its last
CreatedMinimally(old, new, segs) ==
  \A m \in 0..(Len(segs) - 1) :
    LET c == GetSegs(new, Upto(segs, m))
    IN /\ (m >= 1 /\ ~HasValueAt(old, Upto(segs, m)))
            => c.t = (IF IsUint(segs[m + 1]) THEN "arr" ELSE "obj")
       /\ (c.t = "arr" /\ IsUint(segs[m + 1]) /\ ~HasValueAt(old, Upto(segs, m + 1)))
            => Len(c.el) = Atoui(segs[m + 1]) + 1

CreatesPath ==
  /\ i' = i + 1
  /\ err' = NoErr
  /\ HasValueAt(raw', SegsOf(NextPair))
  /\ GetSegs(raw', SegsOf(NextPair)) = DataOf(NextPair)
  /\ CreatedMinimally(raw, raw', SegsOf(NextPair))

\* C20 as stated: a pair whose path is not in the tree applies and creates
\* it, the missing containers made on the way as arrays before a number
\* and objects before a name, an array extended just up to the index
C20_AnyNewPathCreated ==
  [][WritesNewPath => CreatesPath]_vars

\* C20 amended: the same for a path without a segment "-1" that does not
\* meet an array with a name; a path that does meet one fails
C20_NewPathCreated ==
  [][/\ (WritesNewPath /\ ~HasAppendSeg(SegsOf(NextPair)) /\ ~ArrayConflict(raw, SegsOf(NextPair)))
         => CreatesPath
     /\ (WritesNewPath /\ ArrayConflict(raw, SegsOf(NextPair))) => FailsNamingPath]_vars

\* the pair a.n.3=7 has applied to {}: the tree is {"a":{"n":[null,null,null,7]}}
C20_Witness ==
  /\ dirPath = EmptyDir
  /\ i = 1
  /\ PathOf(kvs[1]) = <<"a", ".", "n", ".", "3">>
  /\ Encode(raw) = "{\"a\":{\"n\":[null,null,null,7]}}"

(***************************************************************************)
(* Properties of the stored tree.                                          *)
(***************************************************************************)
\* C21: the tree a successful Load stores is an object, and so is the tree
\* in the hands of Load at every turn of the loop over the overrides, an
\* override whose first segment is a number among them
C21_RootIsObject ==
  /\ (Returned /\ err = NoErr) => csraw.data.t = "obj"
  /\ pc \in {"overwrite", "store"} => raw.t = "obj"

\* Load with the override 0=7 has returned nil: the root is an object with
\* the member "0"
C21_Witness ==
  /\ Returned
  /\ err = NoErr
  /\ environment = <<SetZero>>
  /\ Encode(csraw.data) = "{\"a\":{\"n\":[1,2],\"s\":1},\"0\":7}"

\* C22: when Load has returned nil, cs.raw is the document made of the
\* files of the directory and the overrides of the environment of that
\* call and of nothing else; when it has returned an error, cs.raw is what
\* it was, so that cs.raw is always the document of the last Load that
\* succeeded
C22_LastLoadAlone ==
  Returned =>
    IF err = NoErr
      THEN csraw = Header(overwriteConfigSet(gatherConfigs(dirPath).tree, environment).tree)
      ELSE csraw = before

\* a reload of an empty directory after a load that stored members has
\* returned nil, and the tree is {}
C22_Witness ==
  /\ Returned
  /\ loads = 2
  /\ err = NoErr
  /\ before.data /= Nil
  /\ before.data.kv /= <<>>
  /\ dirPath = EmptyDir
  /\ csraw.data = Obj(<<>>)

\* the first place on the way of segs at which a scalar stands: the number
\* of segments that lead to it, 0 if there is none
ScalarOnWay(tr, segs) ==
  LET at(m) == GetSegs(tr, Upto(segs, m))
      S == {m \in 1..(Len(segs) - 1) :
              /\ \A k \in 1..m : HasValueAt(tr, Upto(segs, k))
              /\ at(m).t = "val"}
  IN IF S = {} THEN 0 ELSE CHOOSE m \in S : TRUE

\* the container holds the written entry and nothing else: an object with
\* the one member seg, or an array that ends with the element seg after
\* nothing but nulls
HoldsOnly(c, seg) ==
  IF IsUint(seg)
    THEN /\ c.t = "arr"
         /\ Len(c.el) = Atoui(seg) + 1
         /\ \A n \in 1..Atoui(seg) : c.el[n] = Null
    ELSE /\ c.t = "obj"
         /\ Len(c.kv) = 1
         /\ c.kv[1].k = JoinStr(seg)

\* C23: a pair whose path leads through a place where a scalar stands
\* applies: in that place stands a new container that holds only what was
\* written, the scalar is gone, and the value of the pair is at the path
C23_ScalarGivesWay ==
  [][(Writable /\ ScalarOnWay(raw, SegsOf(NextPair)) > 0) =>
       LET segs == SegsOf(NextPair)
           m == ScalarOnWay(raw, segs)
       IN /\ i' = i + 1
          /\ err' = NoErr
          /\ HoldsOnly(GetSegs(raw', Upto(segs, m)), segs[m + 1])
          /\ GetSegs(raw', segs) = DataOf(NextPair)]_vars

\* the pair a.s.y=7 has applied to {"a":{"n":[1,2],"s":1}}
C23_Witness ==
  /\ dirPath = SmallDir
  /\ i = 1
  /\ PathOf(kvs[1]) = <<"a", ".", "s", ".", "y">>
  /\ Encode(raw) = "{\"a\":{\"n\":[1,2],\"s\":{\"y\":7}}}"

====
